---------------------------- MODULE Spec2Model ----------------------------
(***************************************************************************)
(* A model of the grep engine of src/src/main.rs: the pattern compiler     *)
(* (RegexElement::read, Regex::from_str) and the matcher                   *)
(* (RegexElement::matches, Regex::matches).                                *)
(*                                                                         *)
(* A string is a sequence of characters; a character is a one-character    *)
(* TLA+ string, except the two-byte character U+00E9, written "U+00E9".    *)
(* Offsets into a &str are byte offsets, as in the code.                   *)
(***************************************************************************)
EXTENDS Integers, Sequences, FiniteSets, TLC

VARIABLES pattern, input, pos, elements, pc, range_index, start_index,
          elem_i, end_index, match_count, inner_match, matches, result

vars == <<pattern, input, pos, elements, pc, range_index, start_index,
          elem_i, end_index, match_count, inner_match, matches, result>>

-----------------------------------------------------------------------------
(* Bounds of the model. *)

\* tokens per pattern in Spec
MaxTokens == 2
\* characters per input line in Spec
MaxInLen == 3
\* characters per input line in SpecQuant
MaxQInLen == 4
\* characters per pattern in SpecCompile
MaxCompileLen == 4
\* the number of values of a usize, scaled down from 2^64; it stays above
\* every count a loop over a consuming content can reach
UsizeMod == 6

-----------------------------------------------------------------------------
(* Characters and UTF-8 strings. *)

NonAscii == {"U+00E9"}

Digits == {"0", "1", "2", "3", "4", "5", "6", "7", "8", "9"}

Letters ==
    {"a", "b", "c", "d", "e", "f", "g", "h", "i", "j", "k", "l", "m",
     "n", "o", "p", "q", "r", "s", "t", "u", "v", "w", "x", "y", "z",
     "A", "B", "C", "D", "E", "F", "G", "H", "I", "J", "K", "L", "M",
     "N", "O", "P", "Q", "R", "S", "T", "U", "V", "W", "X", "Y", "Z"}

\* char::is_ascii_digit
IsAsciiDigit(c) == c \in Digits

\* c.is_ascii_alphanumeric() || c == '_'
IsWordChar(c) == c \in Letters \cup Digits \cup {"_"}

\* char::len_utf8
Utf8Len(c) == IF c \in NonAscii THEN 2 ELSE 1

RECURSIVE ByteLen(_)
\* str::len: the length in bytes
ByteLen(s) == IF s = <<>> THEN 0 ELSE Utf8Len(Head(s)) + ByteLen(Tail(s))

\* str::is_char_boundary
IsCharBoundary(s, i) ==
    \E k \in 0..Len(s) : ByteLen(SubSeq(s, 1, k)) = i

\* &s[i..], where i is a char boundary of s
SliceFrom(s, i) ==
    LET k == CHOOSE k \in 0..Len(s) : ByteLen(SubSeq(s, 1, k)) = i
    IN  SubSeq(s, k + 1, Len(s))

\* full_str.get(start_index..).unwrap_or_default()
GetFrom(full_str, i) ==
    IF IsCharBoundary(full_str, i) THEN SliceFrom(full_str, i) ELSE <<>>

Min(a, b) == IF a <= b THEN a ELSE b

-----------------------------------------------------------------------------
(* Option<&str> as returned by RegexElement::matches: the matched span's   *)
(* byte length, no match, or a panic raised while slicing.                 *)

Some(n) == [tag |-> "Some", len |-> n]
None == [tag |-> "None", len |-> 0]
Panic == [tag |-> "Panic", len |-> 0]

\* Some(&str[..n]): slicing panics unless n is a char boundary of str
SlicePrefix(str, n) == IF IsCharBoundary(str, n) THEN Some(n) ELSE Panic

-----------------------------------------------------------------------------
(* RegexElement *)

Wildcard == [kind |-> "Wildcard"]
Literal(c) == [kind |-> "Literal", c |-> c]
ClassDigit == [kind |-> "Digit"]
ClassAlphanumeric == [kind |-> "Alphanumeric"]
CharGroup(p, o) == [kind |-> "CharGroup", is_positive |-> p, options |-> o]
StartAnchor == [kind |-> "StartAnchor"]
EndAnchor == [kind |-> "EndAnchor"]
\* max is an Option<usize>: <<>> is None, <<n>> is Some(n)
Quantifier(mn, mx, e) == [kind |-> "Quantifier", min |-> mn, max |-> mx, content |-> e]

IsQuantifier(e) == e.kind = "Quantifier"

InSeq(c, s) == \E i \in 1..Len(s) : s[i] = c

-----------------------------------------------------------------------------
(* RegexElement::read *)

SuffixChars == {"+", "*", "?"}

\* the (min, max) of the quantifier a suffix character makes
SuffixBounds(c) ==
    CASE c = "+" -> <<1, <<>> >>
      [] c = "*" -> <<0, <<>> >>
      [] c = "?" -> <<0, <<1>> >>

\* ReadEscape with a slip: an unknown escape is taken as the literal
\* character instead of failing
ReadEscapeLenient(p, i) ==
    IF i + 1 > Len(p) THEN [tag |-> "Err", msg |-> "Expected character after backslash"]
    ELSE IF p[i + 1] = "d" THEN [tag |-> "Elem", elem |-> ClassDigit, next |-> i + 2]
    ELSE IF p[i + 1] = "w" THEN [tag |-> "Elem", elem |-> ClassAlphanumeric, next |-> i + 2]
    ELSE [tag |-> "Elem", elem |-> Literal(p[i + 1]), next |-> i + 2]

\* the escape arm: the element for the character after a backslash
ReadEscape(p, i) ==
    IF i + 1 > Len(p) THEN [tag |-> "Err", msg |-> "Expected character after backslash"]
    ELSE IF p[i + 1] = "d" THEN [tag |-> "Elem", elem |-> ClassDigit, next |-> i + 2]
    ELSE IF p[i + 1] = "w" THEN [tag |-> "Elem", elem |-> ClassAlphanumeric, next |-> i + 2]
    ELSE [tag |-> "Err", msg |-> "Unknown escape sequence"]

\* the char group arm: next_if_eq('^'), then take_while(c != ']'), which
\* also consumes the ']' it stops at
ReadGroup(p, i) ==
    LET negated == i + 1 <= Len(p) /\ p[i + 1] = "^"
        first == IF negated THEN i + 2 ELSE i + 1
        stops == {j \in first..Len(p) : p[j] = "]"}
        close == IF stops = {} THEN Len(p) + 1
                 ELSE CHOOSE j \in stops : \A k \in stops : j <= k
    IN  [tag |-> "Elem",
         elem |-> CharGroup(~negated, SubSeq(p, first, close - 1)),
         next |-> Min(close + 1, Len(p) + 1)]

\* the first match of read: one atomic element from position i
ReadAtom(p, i) ==
    CASE p[i] = "."  -> [tag |-> "Elem", elem |-> Wildcard, next |-> i + 1]
      [] p[i] = "\\" -> ReadEscape(p, i)
      [] p[i] = "["  -> ReadGroup(p, i)
      [] p[i] = "^"  -> [tag |-> "Elem", elem |-> StartAnchor, next |-> i + 1]
      [] p[i] = "$"  -> [tag |-> "Elem", elem |-> EndAnchor, next |-> i + 1]
      [] OTHER       -> [tag |-> "Elem", elem |-> Literal(p[i]), next |-> i + 1]

\* ReadSuffix with a slip: a second suffix character wraps the quantifier
\* again
ReadSuffixNested(p, a) ==
    LET wrap(e, c) == Quantifier(SuffixBounds(c)[1], SuffixBounds(c)[2], e)
    IN  IF a.next <= Len(p) /\ p[a.next] \in SuffixChars
        THEN IF a.next + 1 <= Len(p) /\ p[a.next + 1] \in SuffixChars
             THEN [tag |-> "Elem",
                   elem |-> wrap(wrap(a.elem, p[a.next]), p[a.next + 1]),
                   next |-> a.next + 2]
             ELSE [tag |-> "Elem", elem |-> wrap(a.elem, p[a.next]), next |-> a.next + 1]
        ELSE a

\* the second match of read: peek one character for a quantifier suffix
ReadSuffix(p, a) ==
    IF a.next <= Len(p) /\ p[a.next] \in SuffixChars
    THEN [tag |-> "Elem",
          elem |-> Quantifier(SuffixBounds(p[a.next])[1],
                              SuffixBounds(p[a.next])[2], a.elem),
          next |-> a.next + 1]
    ELSE a

\* RegexElement::read at cursor position i: an element, an error, or
\* Ok(None) at the end of the pattern
ReadElement(p, i) ==
    IF i > Len(p) THEN [tag |-> "Eof"]
    ELSE LET a == ReadAtom(p, i)
         IN  IF a.tag = "Err" THEN a ELSE ReadSuffix(p, a)

-----------------------------------------------------------------------------
(* RegexElement::matches *)

\* StartAnchorMatches with a slip: the anchor matches at every index
StartAnchorAlways(start_index_) == TRUE

\* the StartAnchor arm: start_index == 0
StartAnchorMatches(start_index_) == start_index_ = 0

\* the EndAnchor arm: str.is_empty()
EndAnchorMatches(str) == str = <<>>

\* options.contains(&c) == *is_positive
GroupAccepts(e, c) == InSeq(c, e.options) = e.is_positive

\* whether the one-character arms accept the string's first character
AtomAccepts(e, str) ==
    CASE e.kind = "Wildcard"     -> str # <<>>
      [] e.kind = "Literal"      -> str # <<>> /\ str[1] = e.c
      [] e.kind = "Digit"        -> str # <<>> /\ IsAsciiDigit(str[1])
      [] e.kind = "Alphanumeric" -> str # <<>> /\ IsWordChar(str[1])
      [] e.kind = "CharGroup"    -> str # <<>> /\ GroupAccepts(e, str[1])

\* matches of an element that is not a Quantifier
MatchAtom(e, full_str, start_index_) ==
    LET str == GetFrom(full_str, start_index_)
    IN  CASE e.kind = "StartAnchor" ->
                 IF StartAnchorMatches(start_index_) THEN Some(0) ELSE None
          [] e.kind = "EndAnchor" ->
                 IF EndAnchorMatches(str) THEN Some(0) ELSE None
          [] OTHER ->
                 IF AtomAccepts(e, str) THEN SlicePrefix(str, 1) ELSE None

\* MaxReached with a slip: the loop never breaks at max
MaxNeverReached(max, count) == FALSE

\* if let Some(max) = max { if *max == match_count { break } }
MaxReached(max, count) == max # <<>> /\ max[1] = count

\* MinReached with a slip: > for >=
MinReachedStrict(min, count) == count > min

\* match_count >= *min
MinReached(min, count) == count >= min

\* the Quantifier arm's result once its loop has ended
QuantResult(e, str, end_index_, count) ==
    IF MinReached(e.min, count) THEN SlicePrefix(str, end_index_) ELSE None

-----------------------------------------------------------------------------
(* The state machine: from_str reads the pattern one element at a time,    *)
(* then Regex::matches runs its two loops.                                 *)

\* s.len()
InputLen == ByteLen(input)

\* the str the Quantifier arm works on
QStr == GetFrom(input, Min(start_index, InputLen))

TypeOK ==
    /\ pc \in {"read", "error", "loop", "elem", "quant", "qexit", "done", "panic"}
    /\ pos \in 1..(Len(pattern) + 1)
    /\ range_index \in 0..(InputLen + 1)
    /\ match_count \in 0..(UsizeMod - 1)
    /\ result \in BOOLEAN

InitWith(P, I) ==
    /\ pattern \in P
    /\ input \in I
    /\ pos = 1
    /\ elements = <<>>
    /\ pc = "read"
    /\ range_index = 0
    /\ start_index = 0
    /\ elem_i = 1
    /\ end_index = 0
    /\ match_count = 0
    /\ inner_match = None
    /\ matches = None
    /\ result = FALSE

\* from_fn's closure: one call of RegexElement::read that yields an element
\* or an error; an error aborts collect and from_str
Read ==
    /\ pc = "read"
    /\ pos <= Len(pattern)
    /\ LET r == ReadElement(pattern, pos)
       IN  IF r.tag = "Err"
           THEN /\ pc' = "error"
                /\ elements' = <<>>
                /\ pos' = pos
           ELSE /\ pc' = "read"
                /\ elements' = Append(elements, r.elem)
                /\ pos' = r.next
    /\ UNCHANGED <<pattern, input, range_index, start_index, elem_i, end_index,
                   match_count, inner_match, matches, result>>

\* read returns Ok(None): collect ends, from_str rejects an empty element
\* list, and match_pattern calls Regex::matches on the result
FromStrEnd ==
    /\ pc = "read"
    /\ pos > Len(pattern)
    /\ pc' = IF elements = <<>> THEN "error" ELSE "loop"
    /\ range_index' = 0
    /\ UNCHANGED <<pattern, input, pos, elements, start_index, elem_i, end_index,
                   match_count, inner_match, matches, result>>

\* 'regex_loop: the next start index of 0..=s.len()
ForNext ==
    /\ pc = "loop"
    /\ range_index <= InputLen
    /\ start_index' = range_index
    /\ elem_i' = 1
    /\ pc' = "elem"
    /\ UNCHANGED <<pattern, input, pos, elements, range_index, end_index,
                   match_count, inner_match, matches, result>>

\* the range is exhausted: Regex::matches returns false
ReturnFalse ==
    /\ pc = "loop"
    /\ range_index > InputLen
    /\ result' = FALSE
    /\ pc' = "done"
    /\ UNCHANGED <<pattern, input, pos, elements, range_index, start_index,
                   elem_i, end_index, match_count, inner_match, matches>>

\* the body of the inner for loop after element.matches has returned m:
\* the println slices s[start_index..], then the index advances or the
\* outer loop continues
AfterElement(m) ==
    /\ matches' = m
    /\ IF m.tag = "Panic" \/ ~IsCharBoundary(input, start_index)
       THEN /\ pc' = "panic"
            /\ UNCHANGED <<start_index, elem_i, range_index>>
       ELSE IF m.tag = "Some"
       THEN /\ start_index' = start_index + m.len
            /\ elem_i' = elem_i + 1
            /\ pc' = "elem"
            /\ UNCHANGED range_index
       ELSE /\ start_index' = start_index + 1
            /\ range_index' = range_index + 1
            /\ pc' = "loop"
            /\ UNCHANGED elem_i

\* one element that is not a Quantifier
MatchElement ==
    /\ pc = "elem"
    /\ elem_i <= Len(elements)
    /\ ~IsQuantifier(elements[elem_i])
    /\ AfterElement(MatchAtom(elements[elem_i], input, Min(start_index, InputLen)))
    /\ UNCHANGED <<pattern, input, pos, elements, end_index, match_count,
                   inner_match, result>>

\* the Quantifier arm is entered: end_index = 0, match_count = 0
QuantEnter ==
    /\ pc = "elem"
    /\ elem_i <= Len(elements)
    /\ IsQuantifier(elements[elem_i])
    /\ end_index' = 0
    /\ match_count' = 0
    /\ inner_match' = None
    /\ pc' = "quant"
    /\ UNCHANGED <<pattern, input, pos, elements, range_index, start_index,
                   elem_i, matches, result>>

\* one evaluation of the while-let condition and, when content matched, of
\* the loop body.  match_count += 1 on a usize at its maximum panics in a
\* build with overflow checks and wraps in one without.
QuantIter ==
    /\ pc = "quant"
    /\ LET e == elements[elem_i]
           m == MatchAtom(e.content, QStr, end_index)
       IN  /\ inner_match' = m
           /\ IF m.tag = "Panic"
              THEN /\ pc' = "panic"
                   /\ UNCHANGED <<match_count, end_index>>
              ELSE IF m.tag = "Some"
              THEN \E checked \in BOOLEAN :
                     IF checked /\ match_count + 1 = UsizeMod
                     THEN /\ pc' = "panic"
                          /\ UNCHANGED <<match_count, end_index>>
                     ELSE /\ match_count' = (match_count + 1) % UsizeMod
                          /\ end_index' = end_index + m.len
                          /\ pc' = IF MaxReached(e.max, match_count')
                                   THEN "qexit" ELSE "quant"
              ELSE /\ pc' = "qexit"
                   /\ UNCHANGED <<match_count, end_index>>
    /\ UNCHANGED <<pattern, input, pos, elements, range_index, start_index,
                   elem_i, matches, result>>

\* the loop has ended: the Quantifier arm returns and the inner for loop
\* goes on
QuantExit ==
    /\ pc = "qexit"
    /\ AfterElement(QuantResult(elements[elem_i], QStr, end_index, match_count))
    /\ UNCHANGED <<pattern, input, pos, elements, end_index, match_count,
                   inner_match, result>>

\* every element matched: Regex::matches returns true
ReturnTrue ==
    /\ pc = "elem"
    /\ elem_i > Len(elements)
    /\ result' = TRUE
    /\ pc' = "done"
    /\ UNCHANGED <<pattern, input, pos, elements, range_index, start_index,
                   elem_i, end_index, match_count, inner_match, matches>>

Next ==
    \/ Read
    \/ FromStrEnd
    \/ ForNext
    \/ ReturnFalse
    \/ MatchElement
    \/ QuantEnter
    \/ QuantIter
    \/ QuantExit
    \/ ReturnTrue

-----------------------------------------------------------------------------
(* Patterns and inputs. *)

RECURSIVE Flatten(_)
Flatten(ss) == IF ss = <<>> THEN <<>> ELSE Head(ss) \o Flatten(Tail(ss))

\* all sequences over S of length at most n
SeqsUpTo(S, n) == UNION {[1..k -> S] : k \in 0..n}

Tokens ==
    { <<"a">>, <<"1">>, <<".">>, <<"^">>, <<"$">>, <<"*">>, <<"+">>, <<"?">>,
      <<"\\", "d">>, <<"\\", "w">>, <<"[", "a", "]">>, <<"[", "^", "a", "]">> }

Patterns == {Flatten(ts) : ts \in SeqsUpTo(Tokens, MaxTokens)}

Inputs == SeqsUpTo({"a", "1", "U+00E9"}, MaxInLen)

Init == InitWith(Patterns, Inputs)

Spec == Init /\ [][Next]_vars

\* the program runs to completion: no step is postponed forever
FairSpec == Init /\ [][Next]_vars /\ WF_vars(Next)

\* the family of quantified literal patterns: x*, x+, x?, then one of them
\* followed by a literal, then a literal, x+ and a literal
QuantLits == {"a", "b", "c"}

QuantPatterns ==
    {<<x, q>> : x \in QuantLits, q \in SuffixChars}
    \cup {<<x, q, y>> : x \in QuantLits, q \in SuffixChars, y \in QuantLits}
    \cup {<<c, x, "+", t>> : c \in QuantLits, x \in QuantLits, t \in QuantLits}

QuantInputs == SeqsUpTo(QuantLits \cup NonAscii, MaxQInLen)

InitQuant == InitWith(QuantPatterns, QuantInputs)

SpecQuant == InitQuant /\ [][Next]_vars

\* every character the compiler tells apart, in patterns of every shape
CompileChars == {"a", "d", "w", "\\", "[", "]", "^", "$", ".", "*", "+", "?"}

InitCompile == InitWith(SeqsUpTo(CompileChars, MaxCompileLen), {<<>>})

\* from_str alone
NextCompile ==
    \/ Read
    \/ FromStrEnd

SpecCompile == InitCompile /\ [][NextCompile]_vars

-----------------------------------------------------------------------------
(* The matcher in one piece: what one call computes, for stating what a    *)
(* run of the state machine must return.                                   *)

Diverge == [tag |-> "Diverge", len |-> 0]

RECURSIVE QuantRun(_, _, _, _)
\* the Quantifier arm from the loop state (end_index_, count); a repetition
\* of length 0 that does not reach max repeats the loop without end (or
\* until match_count overflows): the arm does not return
QuantRun(e, str, end_index_, count) ==
    LET m == MatchAtom(e.content, str, end_index_)
    IN  IF m.tag = "Panic" THEN Panic
        ELSE IF m.tag = "None" THEN QuantResult(e, str, end_index_, count)
        ELSE IF MaxReached(e.max, count + 1)
             THEN QuantResult(e, str, end_index_ + m.len, count + 1)
        ELSE IF m.len = 0 THEN Diverge
        ELSE QuantRun(e, str, end_index_ + m.len, count + 1)

\* RegexElement::matches for any element
MatchAny(e, full_str, start_index_) ==
    IF IsQuantifier(e)
    THEN QuantRun(e, GetFrom(full_str, start_index_), 0, 0)
    ELSE MatchAtom(e, full_str, start_index_)

RECURSIVE SeqRun(_, _, _, _)
\* the inner for loop of Regex::matches from element k at index i
SeqRun(els, s, k, i) ==
    IF k > Len(els) THEN "Match"
    ELSE LET m == MatchAny(els[k], s, Min(i, ByteLen(s)))
         IN  IF m.tag = "Diverge" THEN "Diverge"
             ELSE IF m.tag = "Panic" \/ ~IsCharBoundary(s, i) THEN "Panic"
             ELSE IF m.tag = "Some" THEN SeqRun(els, s, k + 1, i + m.len)
             ELSE "Fail"

\* the sequence match of all elements in order from one start offset
TryMatchFrom(els, s, off) == SeqRun(els, s, 1, off)

-----------------------------------------------------------------------------
(* Vocabulary of the properties. *)

Returned == pc = "done"
ReturnedTrue == pc = "done" /\ result
Panicked == pc = "panic"
\* a run that is over: compile error, return, or panic
Ended == pc \in {"error", "done", "panic"}

\* the quantifier whose loop is running or has just ended
Q == elements[elem_i]

IsAscii(s) == \A i \in 1..Len(s) : s[i] \notin NonAscii

\* the offsets 0..=len(input)
Offsets == 0..InputLen

\* the start offsets at which the sequence match of the compiled pattern
\* succeeds
MatchingOffsets == {off \in Offsets : TryMatchFrom(elements, input, off) = "Match"}

\* w occurs in s as a run of consecutive characters
Contains(s, w) ==
    \E i \in 1..(Len(s) - Len(w) + 1) : SubSeq(s, i, i + Len(w) - 1) = w

-----------------------------------------------------------------------------
(* C1: every call of Regex::matches terminates, whatever element a         *)
(* quantifier wraps: every run of the program ends (a compile error, a     *)
(* returned boolean or a panic).                                           *)
C1_Terminates == <>Ended

\* The loop that refutes C1: a quantifier without max around an anchor goes
\* through its loop body again and again with end_index unchanged.
C1_AnchorLoops ==
    /\ pc = "quant"
    /\ elements[elem_i].content.kind \in {"StartAnchor", "EndAnchor"}
    /\ elements[elem_i].max = <<>>
    /\ inner_match = Some(0)

\* Where C1 does hold: every run ends or enters such a loop.
C1_EndsOrAnchorLoops == <>(Ended \/ C1_AnchorLoops)

\* Where C1 does hold: a quantifier whose content consumes a character has
\* gone round at most once per byte of its string.
C1_ConsumingLoopBounded ==
    (pc \in {"quant", "qexit"}
       /\ elements[elem_i].content.kind \notin {"StartAnchor", "EndAnchor"})
    => /\ match_count = end_index
       /\ end_index <= ByteLen(QStr)

-----------------------------------------------------------------------------
(* C2: matching never panics, whatever characters the input contains.     *)
C2_NeverPanics == ~Panicked

\* Where C2 does hold: on a line of one-byte characters no slice panics;
\* what is left is the overflow of match_count in a loop over an anchor.
C2_AsciiNeverPanics ==
    (IsAscii(input) /\ Panicked)
    => /\ pc = "panic"
       /\ matches # Panic
       /\ inner_match = Some(0)
       /\ match_count = UsizeMod - 1
       /\ Q.content.kind \in {"StartAnchor", "EndAnchor"}

-----------------------------------------------------------------------------
(* C3: Regex::matches returns true if and only if the sequence match       *)
(* succeeds at some start offset of 0..=len(input); it returns at the      *)
(* first such offset in increasing order, and returns false only after     *)
(* every offset has failed.                                                *)
C3_TrueIffSomeOffsetMatches ==
    Ended /\ pc # "error"
    => /\ ReturnedTrue <=> MatchingOffsets # {}
       /\ ReturnedTrue =>
            /\ range_index \in MatchingOffsets
            /\ \A off \in 0..(range_index - 1) :
                   TryMatchFrom(elements, input, off) = "Fail"
       /\ (Returned /\ ~result) =>
            \A off \in Offsets : TryMatchFrom(elements, input, off) = "Fail"

\* What holds of the code: the same, of the runs that return.
C3_OnReturn ==
    Returned
    => /\ result <=> MatchingOffsets # {}
       /\ result =>
            /\ range_index \in MatchingOffsets
            /\ \A off \in 0..(range_index - 1) :
                   TryMatchFrom(elements, input, off) = "Fail"
       /\ ~result =>
            \A off \in Offsets : TryMatchFrom(elements, input, off) = "Fail"

-----------------------------------------------------------------------------
(* C4: the greedy quantifier never gives a repetition back.  For a literal *)
(* x, the patterns x*x and x+x match no input at all, and x?x matches an   *)
(* input exactly when it contains two consecutive x.                       *)
C4_GreedyConsequences ==
    Ended =>
      \A x \in QuantLits :
        /\ pattern \in {<<x, "*", x>>, <<x, "+", x>>} => ~ReturnedTrue
        /\ pattern = <<x, "?", x>> => (ReturnedTrue <=> Contains(input, <<x, x>>))

\* What holds of the code: the same, of the lines of one-byte characters.
C4_OnAscii == IsAscii(input) => C4_GreedyConsequences

\* a step in which element.matches returns to the inner for loop
ElementReturns ==
    \/ pc = "qexit"
    \/ pc = "elem" /\ pc' \notin {"elem", "quant", "done"}
    \/ pc = "elem" /\ pc' = "elem" /\ elem_i' # elem_i

\* What holds of the code: an element that fails ends the candidate start
\* offset; the next thing tried is the first element at the next offset.
C4_NoRetry ==
    [][(ElementReturns /\ matches'.tag = "None" /\ pc' # "panic")
         => pc' = "loop" /\ range_index' = range_index + 1]_vars

-----------------------------------------------------------------------------
(* C5: for distinct literals x and y and every ASCII input the engine      *)
(* agrees with standard regular-expression search: x* and x? match every   *)
(* input; x+ matches iff the input contains x; x*y and x?y match iff the   *)
(* input contains y; x+y matches iff the input contains xy; and cx+t       *)
(* matches iff the input contains c, one or more x, then t.                *)

\* s contains c, then one or more x, then t
ContainsRun(s, c, x, t) ==
    \E i \in 1..Len(s) : \E k \in (i + 2)..Len(s) :
        /\ s[i] = c
        /\ s[k] = t
        /\ \A j \in (i + 1)..(k - 1) : s[j] = x

\* what standard search answers for the patterns of the family
StandardSearch(p, s) ==
    CASE Len(p) = 2 ->
             IF p[2] = "+" THEN Contains(s, <<p[1]>>) ELSE TRUE
      [] Len(p) = 3 ->
             IF p[2] = "+" THEN Contains(s, <<p[1], p[3]>>) ELSE Contains(s, <<p[3]>>)
      [] Len(p) = 4 -> ContainsRun(s, p[1], p[2], p[4])

\* the patterns C5 speaks of: the literal after the quantifier differs from
\* the quantified one
C5_Covers(p) ==
    \/ Len(p) = 2
    \/ Len(p) = 3 /\ p[1] # p[3]
    \/ Len(p) = 4 /\ p[2] # p[4]

\* C5: on an ASCII input a run never panics, and what it returns is what
\* standard search answers for the pattern.
C5_AgreesWithStandardSearch ==
    (IsAscii(input) /\ C5_Covers(pattern))
    => /\ ~Panicked
       /\ pc # "error"
       /\ Returned => (result <=> StandardSearch(pattern, input))

\* ca+t against caat and more: the greedy + has consumed two or more
\* repetitions and the literal after it matched
C5_Witness ==
    /\ ReturnedTrue
    /\ Len(pattern) = 4
    /\ C5_Covers(pattern)
    /\ IsAscii(input)
    /\ Cardinality({pattern[1], pattern[2], pattern[4]}) = 3
    /\ match_count >= 2

-----------------------------------------------------------------------------
(* C6: a pattern whose first element is StartAnchor matches only through   *)
(* the sequence match at offset 0: no start offset greater than 0 makes it *)
(* match.                                                                  *)

FirstIsStartAnchor ==
    /\ pc \notin {"read", "error"}
    /\ elements[1].kind = "StartAnchor"

\* C6: with StartAnchor first, no offset but 0 is a matching offset, and a
\* run that returns true does so at offset 0.
C6_StartAnchorOnlyAtZero ==
    FirstIsStartAnchor
    => /\ MatchingOffsets \subseteq {0}
       /\ ReturnedTrue => range_index = 0 /\ 0 \in MatchingOffsets

\* ^log against slog: the rest of the pattern occurs at a later offset and
\* the run has returned false
C6_Witness ==
    /\ FirstIsStartAnchor
    /\ Len(elements) >= 2
    /\ elements[2].kind = "Literal"
    /\ Returned /\ ~result
    /\ \E off \in 1..InputLen : TryMatchFrom(Tail(elements), input, off) = "Match"

-----------------------------------------------------------------------------
(* C7: a Quantifier applies content again and again from its offset,       *)
(* advancing by each matched length; it stops when content fails or the    *)
(* count reaches max; it succeeds exactly when the count is at least min,  *)
(* with the total length consumed as its span; the count never exceeds max.*)

C7_LoopInvariant ==
    pc \in {"quant", "qexit"}
    => /\ Q.max # <<>> => match_count <= Q.max[1]
       /\ pc = "qexit" => (inner_match = None \/ Q.max = <<match_count>>)
       /\ pc = "quant" => (inner_match # None \/ match_count = 0)
                          /\ Q.max # <<match_count>>
       /\ IF Q.content.kind \in {"StartAnchor", "EndAnchor"}
          THEN end_index = 0
          ELSE /\ match_count = end_index
               /\ \A j \in 0..(end_index - 1) :
                      MatchAtom(Q.content, QStr, j) = Some(1)

\* C7: the loop invariant holds throughout, and the step that leaves the
\* loop reports Some(end_index) exactly when match_count >= min.
C7_QuantifierBounds ==
    /\ []C7_LoopInvariant
    /\ [][pc = "qexit"
           => matches' = IF match_count >= Q.min THEN Some(end_index) ELSE None]_vars

\* a? against aa: the loop stopped at max although content matches again
C7_Witness ==
    /\ pc = "qexit"
    /\ Q.max = <<1>>
    /\ match_count = 1
    /\ MatchAtom(Q.content, QStr, end_index) = Some(1)

\* a+ stopped by a failing content after two or more repetitions
C7_WitnessMany ==
    /\ pc = "qexit"
    /\ Q.min = 1
    /\ match_count >= 2
    /\ inner_match = None

-----------------------------------------------------------------------------
(* C8: compilation fails, and returns no partial pattern, exactly when the *)
(* pattern holds a backslash followed by a character other than d or w     *)
(* (wherever it occurs), a backslash as its last character, or nothing.    *)

BadEscapeAt(p, i) ==
    /\ p[i] = "\\"
    /\ i = Len(p) \/ p[i + 1] \notin {"d", "w"}

Compiled == pc \notin {"read"}

RECURSIVE InGroup(_, _)
\* position i of p lies inside a character group: after a '[' that opens a
\* group and before the next ']'
InGroup(p, i) ==
    IF i <= 1 THEN FALSE
    ELSE IF InGroup(p, i - 1) THEN p[i - 1] # "]"
    ELSE p[i - 1] = "["

\* the positions of the backslashes that make compilation fail
FailingEscapes(p) ==
    {i \in 1..Len(p) : BadEscapeAt(p, i) /\ ~InGroup(p, i)}

C8_WitnessCompiles ==
    /\ pc = "loop"
    /\ \E i \in 1..Len(pattern) : BadEscapeAt(pattern, i)

-----------------------------------------------------------------------------
(* C9: a compiled pattern is non-empty; every Quantifier has (min, max) of *)
(* (0, none) for '*', (1, none) for '+' or (0, 1) for '?'; its content is  *)
(* the single atomic element read just before the suffix, never itself a   *)
(* Quantifier; a suffix character met where an element starts is compiled  *)
(* as a Literal.                                                           *)

Last(s) == s[Len(s)]

\* the atomic element of e: its content when e is a Quantifier
AtomOf(e) == IF IsQuantifier(e) THEN e.content ELSE e

\* the text of the atomic element a ends at position j of p
AtomEndsAt(p, j, a) ==
    /\ j >= 1
    /\ CASE a.kind = "Wildcard"     -> p[j] = "."
         [] a.kind = "StartAnchor"  -> p[j] = "^"
         [] a.kind = "EndAnchor"    -> p[j] = "$"
         [] a.kind = "Literal"      -> p[j] = a.c
         [] a.kind = "Digit"        -> j >= 2 /\ p[j - 1] = "\\" /\ p[j] = "d"
         [] a.kind = "Alphanumeric" -> j >= 2 /\ p[j - 1] = "\\" /\ p[j] = "w"
         [] a.kind = "CharGroup"    ->
                /\ p[j] = "]"
                /\ j - Len(a.options) >= 2
                /\ SubSeq(p, j - Len(a.options), j - 1) = a.options
         [] OTHER -> FALSE

\* the bounds the claim gives each suffix character
C9_BoundsOf(c) ==
    IF c = "*" THEN <<0, <<>> >>
    ELSE IF c = "+" THEN <<1, <<>> >>
    ELSE <<0, <<1>> >>

C9_ElementsWellFormed ==
    /\ pc = "loop" => elements # <<>>
    /\ \A k \in 1..Len(elements) :
         IsQuantifier(elements[k])
         => /\ <<elements[k].min, elements[k].max>>
                 \in {C9_BoundsOf("*"), C9_BoundsOf("+"), C9_BoundsOf("?")}
            /\ elements[k].max # <<>> => elements[k].max[1] >= elements[k].min
            /\ ~IsQuantifier(elements[k].content)
    /\ (pc = "read" /\ elements # <<>> /\ IsQuantifier(Last(elements)))
         => /\ pos >= 3
            /\ pattern[pos - 1] \in SuffixChars
            /\ <<Last(elements).min, Last(elements).max>> = C9_BoundsOf(pattern[pos - 1])
            /\ AtomEndsAt(pattern, pos - 2, Last(elements).content)

\* C9: the elements are well formed throughout compilation, and a read
\* that starts at a suffix character makes a Literal of it.
C9_CompiledStructure ==
    /\ []C9_ElementsWellFormed
    /\ [][(pc = "read" /\ pos <= Len(pattern) /\ pattern[pos] \in SuffixChars)
           => /\ pc' = "read"
              /\ AtomOf(Last(elements')) = Literal(pattern[pos])]_vars

\* a** : the second '*' is a Literal after the Quantifier
C9_Witness ==
    /\ pc = "loop"
    /\ Len(elements) = 2
    /\ IsQuantifier(elements[1])
    /\ elements[2].kind = "Literal"
    /\ elements[2].c \in SuffixChars

-----------------------------------------------------------------------------
(* C10: reading '[' makes one CharGroup of the characters up to the next   *)
(* ']' (consumed; a following suffix quantifies the group), negated when   *)
(* the first character is '^'; without a ']' the rest of the pattern       *)
(* becomes the options, with no error.  At match time a CharGroup consumes *)
(* one character c iff a character exists at the offset and                *)
(* (c in options) == positive.                                             *)

\* the step reads a group that starts at pos
C10_ReadsGroup ==
    LET n == Len(pattern)
        neg == pos + 1 <= n /\ pattern[pos + 1] = "^"
        first == IF neg THEN pos + 2 ELSE pos + 1
        g == AtomOf(Last(elements'))
        close == first + Len(g.options)
    IN  /\ pc' = "read"
        /\ Len(elements') = Len(elements) + 1
        /\ g.kind = "CharGroup"
        /\ g.is_positive = ~neg
        /\ g.options = SubSeq(pattern, first, close - 1)
        /\ ~InSeq("]", g.options)
        /\ IF close <= n
           THEN /\ pattern[close] = "]"
                /\ IsQuantifier(Last(elements'))
                     <=> (close + 1 <= n /\ pattern[close + 1] \in SuffixChars)
                /\ pos' = IF IsQuantifier(Last(elements')) THEN close + 2 ELSE close + 1
           ELSE /\ ~IsQuantifier(Last(elements'))
                /\ pos' = n + 1

\* a character exists at the offset and the group accepts it
C10_GroupAcceptsAt(g, s, i) ==
    LET rest == GetFrom(s, i)
    IN  rest # <<>> /\ (InSeq(rest[1], g.options) = g.is_positive)

\* the step applies a CharGroup, as an element or as a quantifier's content
C10_MatchesGroup ==
    /\ (pc = "elem" /\ elem_i <= Len(elements) /\ elements[elem_i].kind = "CharGroup")
         => (matches' = Some(1)
               <=> C10_GroupAcceptsAt(elements[elem_i], input, Min(start_index, InputLen)))
    /\ (pc = "quant" /\ Q.content.kind = "CharGroup")
         => (inner_match' = Some(1) <=> C10_GroupAcceptsAt(Q.content, QStr, end_index))

\* C10: every read of a '[' makes the group the claim describes, and every
\* application of a CharGroup consumes one character iff the group accepts
\* the character at the offset.
C10_CharGroup ==
    [][/\ (pc = "read" /\ pos <= Len(pattern) /\ pattern[pos] = "[") => C10_ReadsGroup
       /\ C10_MatchesGroup]_vars

\* What holds of the code: the reading half.
C10_Read ==
    [][(pc = "read" /\ pos <= Len(pattern) /\ pattern[pos] = "[") => C10_ReadsGroup]_vars

\* What holds of the code: the matching half, on lines of one-byte
\* characters.
C10_MatchOnAscii == [][IsAscii(input) => C10_MatchesGroup]_vars

=============================================================================
